---- MODULE Spec2Model ----
(***************************************************************************)
(* Model of packages/desktop/src-tauri/src/cli.rs: the process supervisor  *)
(* (serve), the install manager (install_cli) and the version sync         *)
(* workflow (sync_cli).                                                    *)
(***************************************************************************)
EXTENDS Integers, Sequences, FiniteSets, TLC

(***************************************************************************)
(* Bounds of the model.                                                    *)
(***************************************************************************)
\* Total number of events the spawned processes emit on their event streams.
MaxEvents == 2

\* Option<T>: None is the empty sequence, Some(x) the one-element sequence.
None == <<>>
Some(x) == <<x>>

(***************************************************************************)
(* Process supervisor: serve (cli.rs 274-330).                             *)
(***************************************************************************)
\* The calls of serve the application makes.
Spawns == {"s1", "s2"}

\* TerminatedPayload { code: Option<i32>, signal: Option<i32> }.
Payloads ==
    { [code |-> Some(0), signal |-> None],
      [code |-> None, signal |-> Some(9)] }

\* TerminatedPayload::default(); carried by the events that have no payload.
NoPayload == [code |-> None, signal |-> None]

\* CommandEvent: the four kinds serve matches, and the kinds it does not
\* name (the enum is non-exhaustive), matched by the wildcard arm.
EventKinds == {"Stdout", "Stderr", "Error", "Terminated", "Other"}

CommandEvents ==
    { [kind |-> k, payload |-> NoPayload] : k \in EventKinds \ {"Terminated"} }
    \cup { [kind |-> "Terminated", payload |-> p] : p \in Payloads }

\* What the holder of oneshot::Receiver observes.
ChanPending == [kind |-> "pending", payload |-> NoPayload]
ChanClosed == [kind |-> "closed", payload |-> NoPayload]
ChanSent(p) == [kind |-> "sent", payload |-> p]

VARIABLES
    serveState,  \* per spawn: "idle", "returned" or "panicked"
    events,      \* per spawn: every event the process has put on its stream
    pos,         \* per spawn: how many of them the consumer task has received
    closed,      \* per spawn: the stream's senders are all dropped
    task,        \* per spawn: the consumer task: "none", "running", "done"
    exit_tx,     \* per spawn: the task's Option<Sender>: TRUE is Some
    chan,        \* per spawn: the oneshot channel as its receiver sees it
    rxAlive,     \* per spawn: the caller still holds exit_rx
    sends        \* per spawn: number of calls of tx.send

VARIABLES
    debugBuild,     \* cfg!(debug_assertions)
    unixTarget,     \* cfg!(unix)
    homeSet,        \* the HOME environment variable is set
    sidecarExists,  \* the file at get_sidecar_path exists
    appVersion,     \* app.package_info().version
    installed,      \* the file at get_cli_install_path and what it does when run
    tempScript,     \* the file <temp_dir>/opencode-install.sh
    pc,             \* per caller: where its call of sync_cli / install_cli is
    output,         \* per caller: install_cli's local `output` (the exit status)
    result,         \* per caller: what its last call returned
    log,            \* per caller: what its current call did, in order
    atCall,         \* per caller: `installed` when its current call began
    calls,          \* number of calls begun
    latest,         \* the caller whose call began last, "none" before any
    overlapped,     \* per caller: another call was in flight during its call
    prevSync        \* result and log of the call of sync_cli before this one

VARIABLES
    cmdIn,          \* the arguments and environment of a call of create_command
    cmdOut,         \* what that call returned
    escIn,          \* the argument of a call of shell_escape
    escOut          \* what that call returned

serveVars == <<serveState, events, pos, closed, task, exit_tx, chan, rxAlive, sends>>

syncVars == <<debugBuild, unixTarget, homeSet, sidecarExists, appVersion, installed,
              tempScript, pc, output, result, log, atCall, calls, latest, overlapped, prevSync>>

cmdVars == <<cmdIn, cmdOut, escIn, escOut>>

vars == <<serveVars, syncVars, cmdVars>>

RECURSIVE SumLen(_, _)
SumLen(f, S) ==
    IF S = {} THEN 0
    ELSE LET s == CHOOSE x \in S : TRUE
         IN Len(f[s]) + SumLen(f, S \ {s})

TotalEvents == SumLen(events, Spawns)

InitServe ==
    /\ serveState = [s \in Spawns |-> "idle"]
    /\ events = [s \in Spawns |-> <<>>]
    /\ pos = [s \in Spawns |-> 0]
    /\ closed = [s \in Spawns |-> FALSE]
    /\ task = [s \in Spawns |-> "none"]
    /\ exit_tx = [s \in Spawns |-> FALSE]
    /\ chan = [s \in Spawns |-> ChanPending]
    /\ rxAlive = [s \in Spawns |-> FALSE]
    /\ sends = [s \in Spawns |-> 0]

\* serve, when create_command(..).spawn() returns Ok: the channel is created
\* (280), the consumer task is spawned owning Some(exit_tx) (297-298) and
\* (child, exit_rx) is returned (329).
ServeSpawned(s) ==
    /\ serveState[s] = "idle"
    /\ serveState' = [serveState EXCEPT ![s] = "returned"]
    /\ task' = [task EXCEPT ![s] = "running"]
    /\ exit_tx' = [exit_tx EXCEPT ![s] = TRUE]
    /\ rxAlive' = [rxAlive EXCEPT ![s] = TRUE]
    /\ UNCHANGED <<events, pos, closed, chan, sends>>
    /\ UNCHANGED <<syncVars, cmdVars>>

\* serve, when spawn() returns Err: expect (295) panics. The unwinding drops
\* exit_tx and exit_rx; no task is spawned and nothing is returned.
ServeSpawnFailed(s) ==
    /\ serveState[s] = "idle"
    /\ serveState' = [serveState EXCEPT ![s] = "panicked"]
    /\ chan' = [chan EXCEPT ![s] = ChanClosed]
    /\ UNCHANGED <<events, pos, closed, task, exit_tx, rxAlive, sends>>
    /\ UNCHANGED <<syncVars, cmdVars>>

\* The spawned process (the plugin's reader threads) puts an event on the
\* stream.
Emit(s, e) ==
    /\ serveState[s] = "returned"
    /\ ~closed[s]
    /\ TotalEvents < MaxEvents
    /\ events' = [events EXCEPT ![s] = Append(@, e)]
    /\ UNCHANGED <<serveState, pos, closed, task, exit_tx, chan, rxAlive, sends>>
    /\ UNCHANGED <<syncVars, cmdVars>>

\* Every sender of the stream is dropped: rx.recv() returns None once the
\* buffered events are received.
CloseStream(s) ==
    /\ serveState[s] = "returned"
    /\ ~closed[s]
    /\ closed' = [closed EXCEPT ![s] = TRUE]
    /\ UNCHANGED <<serveState, events, pos, task, exit_tx, chan, rxAlive, sends>>
    /\ UNCHANGED <<syncVars, cmdVars>>

\* The caller drops exit_rx.
DropReceiver(s) ==
    /\ serveState[s] = "returned"
    /\ rxAlive[s]
    /\ rxAlive' = [rxAlive EXCEPT ![s] = FALSE]
    /\ UNCHANGED <<serveState, events, pos, closed, task, exit_tx, chan, sends>>
    /\ UNCHANGED <<syncVars, cmdVars>>

\* rx.recv().await yields Some(event) of kind k (299).
Receives(s, k) ==
    /\ task[s] = "running"
    /\ pos[s] < Len(events[s])
    /\ events[s][pos[s] + 1].kind = k
    /\ pos' = [pos EXCEPT ![s] = @ + 1]

\* The arms that only log (301-311, 324).
OnStdout(s) ==
    /\ Receives(s, "Stdout")
    /\ UNCHANGED <<serveState, events, closed, task, exit_tx, chan, rxAlive, sends>>
    /\ UNCHANGED <<syncVars, cmdVars>>

OnStderr(s) ==
    /\ Receives(s, "Stderr")
    /\ UNCHANGED <<serveState, events, closed, task, exit_tx, chan, rxAlive, sends>>
    /\ UNCHANGED <<syncVars, cmdVars>>

\* Mutant of OnError: the Error arm leaves the loop, ending the task.
OnErrorBreaks(s) ==
    /\ Receives(s, "Error")
    /\ task' = [task EXCEPT ![s] = "done"]
    /\ exit_tx' = [exit_tx EXCEPT ![s] = FALSE]
    /\ chan' = [chan EXCEPT ![s] = IF exit_tx[s] THEN ChanClosed ELSE @]
    /\ UNCHANGED <<serveState, events, closed, rxAlive, sends>>
    /\ UNCHANGED <<syncVars, cmdVars>>

OnError(s) ==
    /\ Receives(s, "Error")
    /\ UNCHANGED <<serveState, events, closed, task, exit_tx, chan, rxAlive, sends>>
    /\ UNCHANGED <<syncVars, cmdVars>>

OnOther(s) ==
    /\ Receives(s, "Other")
    /\ UNCHANGED <<serveState, events, closed, task, exit_tx, chan, rxAlive, sends>>
    /\ UNCHANGED <<syncVars, cmdVars>>

\* Mutant of SentPayload: a default payload is sent instead of the event's.
SentPayloadDefault(e) == NoPayload

\* The payload handed to tx.send (321).
SentPayload(e) == e.payload

\* oneshot::Sender::send: the value reaches the receiver if it is still held;
\* otherwise send returns Err, which `let _ =` discards.
SendOn(c, alive, p) == IF alive /\ c.kind = "pending" THEN ChanSent(p) ELSE c

\* Mutant of OnTerminated: the Terminated arm sends and leaves the loop, so
\* the task ends while the stream is open.
OnTerminatedBreaks(s) ==
    /\ Receives(s, "Terminated")
    /\ task' = [task EXCEPT ![s] = "done"]
    /\ exit_tx' = [exit_tx EXCEPT ![s] = FALSE]
    /\ sends' = [sends EXCEPT ![s] = @ + 1]
    /\ chan' = [chan EXCEPT ![s] =
                  SendOn(@, rxAlive[s], SentPayload(events[s][pos[s] + 1]))]
    /\ UNCHANGED <<serveState, events, closed, rxAlive>>
    /\ UNCHANGED <<syncVars, cmdVars>>

\* Mutant of OnTerminated: the sender is not taken out of exit_tx, so every
\* Terminated event sends.
OnTerminatedNoTake(s) ==
    /\ Receives(s, "Terminated")
    /\ exit_tx[s]
    /\ sends' = [sends EXCEPT ![s] = @ + 1]
    /\ chan' = [chan EXCEPT ![s] = ChanSent(SentPayload(events[s][pos[s] + 1]))]
    /\ UNCHANGED <<serveState, events, closed, task, exit_tx, rxAlive>>
    /\ UNCHANGED <<syncVars, cmdVars>>

\* The Terminated arm (312-323): exit_tx.take() leaves None behind.
OnTerminated(s) ==
    /\ Receives(s, "Terminated")
    /\ IF exit_tx[s]
       THEN /\ exit_tx' = [exit_tx EXCEPT ![s] = FALSE]
            /\ sends' = [sends EXCEPT ![s] = @ + 1]
            /\ chan' = [chan EXCEPT ![s] =
                          SendOn(@, rxAlive[s], SentPayload(events[s][pos[s] + 1]))]
       ELSE UNCHANGED <<exit_tx, sends, chan>>
    /\ UNCHANGED <<serveState, events, closed, task, rxAlive>>
    /\ UNCHANGED <<syncVars, cmdVars>>

\* Mutant of OnStreamEnd: the task ends but its sender is leaked, not dropped.
OnStreamEndLeak(s) ==
    /\ task[s] = "running"
    /\ pos[s] = Len(events[s])
    /\ closed[s]
    /\ task' = [task EXCEPT ![s] = "done"]
    /\ UNCHANGED <<serveState, events, pos, closed, exit_tx, chan, rxAlive, sends>>
    /\ UNCHANGED <<syncVars, cmdVars>>

\* rx.recv().await yields None: the loop and the task end (299, 326-327).
\* The task's locals are dropped; a Sender dropped unsent closes the channel.
OnStreamEnd(s) ==
    /\ task[s] = "running"
    /\ pos[s] = Len(events[s])
    /\ closed[s]
    /\ task' = [task EXCEPT ![s] = "done"]
    /\ exit_tx' = [exit_tx EXCEPT ![s] = FALSE]
    /\ chan' = [chan EXCEPT ![s] = IF exit_tx[s] THEN ChanClosed ELSE @]
    /\ UNCHANGED <<serveState, events, pos, closed, rxAlive, sends>>
    /\ UNCHANGED <<syncVars, cmdVars>>

ConsumerStep(s) ==
    \/ OnStdout(s)
    \/ OnStderr(s)
    \/ OnError(s)
    \/ OnOther(s)
    \/ OnTerminated(s)
    \/ OnStreamEnd(s)

NextServe ==
    \E s \in Spawns :
        \/ ServeSpawned(s)
        \/ ServeSpawnFailed(s)
        \/ \E e \in CommandEvents : Emit(s, e)
        \/ CloseStream(s)
        \/ DropReceiver(s)
        \/ ConsumerStep(s)


(***************************************************************************)
(* Text and versions: the output of `opencode --version` is a sequence of  *)
(* one-character strings; semver::Version::parse is modelled on it.        *)
(***************************************************************************)
\* Largest value of a version field among the versions the model draws.
MaxVer == 1

DigitChars == <<"0", "1", "2", "3", "4", "5", "6", "7", "8", "9">>
LetterChars == <<"a", "b", "v", "x">>
WhiteChars == {" ", "\n"}

IsDigit(c) == \E i \in 1..Len(DigitChars) : DigitChars[i] = c
DigitVal(c) == (CHOOSE i \in 1..Len(DigitChars) : DigitChars[i] = c) - 1
IsLetter(c) == \E i \in 1..Len(LetterChars) : LetterChars[i] = c
LetterRank(c) == CHOOSE i \in 1..Len(LetterChars) : LetterChars[i] = c

\* str::trim: leading and trailing whitespace removed.
RECURSIVE TrimStart(_)
TrimStart(s) ==
    IF s # <<>> /\ Head(s) \in WhiteChars THEN TrimStart(Tail(s)) ELSE s

RECURSIVE TrimEnd(_)
TrimEnd(s) ==
    IF s # <<>> /\ s[Len(s)] \in WhiteChars
    THEN TrimEnd(SubSeq(s, 1, Len(s) - 1))
    ELSE s

Trim(s) == TrimEnd(TrimStart(s))

\* Number of leading digits of s.
RECURSIVE DigitRun(_)
DigitRun(s) ==
    IF s # <<>> /\ IsDigit(Head(s)) THEN 1 + DigitRun(Tail(s)) ELSE 0

\* Value of a sequence of digits, read in base ten.
RECURSIVE Decimal(_)
Decimal(s) ==
    IF s = <<>> THEN 0
    ELSE 10 * Decimal(SubSeq(s, 1, Len(s) - 1)) + DigitVal(s[Len(s)])

\* A numeric identifier at the head of s: digits, no leading zero.
ParseNum(s) ==
    LET n == DigitRun(s)
    IN IF n = 0 \/ (n > 1 /\ s[1] = "0")
       THEN [ok |-> FALSE, val |-> 0, rest |-> s]
       ELSE [ok |-> TRUE, val |-> Decimal(SubSeq(s, 1, n)),
             rest |-> SubSeq(s, n + 1, Len(s))]

Version(ma, mi, pa, pre) == [major |-> ma, minor |-> mi, patch |-> pa, pre |-> pre]

ParseFailed == [ok |-> FALSE, v |-> Version(0, 0, 0, <<>>)]

\* A pre-release tag: here one identifier made of letters.
IsPreTag(s) == s # <<>> /\ \A i \in 1..Len(s) : IsLetter(s[i])

\* semver::Version::parse: MAJOR "." MINOR "." PATCH, then nothing or "-" and
\* a pre-release tag. Anything else, the empty string included, is an error.
ParseVersion(s) ==
    LET a == ParseNum(s)
    IN IF ~a.ok \/ a.rest = <<>> \/ Head(a.rest) # "." THEN ParseFailed
       ELSE
    LET b == ParseNum(Tail(a.rest))
    IN IF ~b.ok \/ b.rest = <<>> \/ Head(b.rest) # "." THEN ParseFailed
       ELSE
    LET c == ParseNum(Tail(b.rest))
    IN IF ~c.ok THEN ParseFailed
       ELSE IF c.rest = <<>>
            THEN [ok |-> TRUE, v |-> Version(a.val, b.val, c.val, <<>>)]
       ELSE IF Head(c.rest) = "-" /\ IsPreTag(Tail(c.rest))
            THEN [ok |-> TRUE, v |-> Version(a.val, b.val, c.val, Tail(c.rest))]
       ELSE ParseFailed

\* Ordering of two alphabetic pre-release identifiers: ASCII, a proper prefix
\* first. -1, 0 or 1.
RECURSIVE CmpTag(_, _)
CmpTag(s, t) ==
    IF s = <<>> /\ t = <<>> THEN 0
    ELSE IF s = <<>> THEN -1
    ELSE IF t = <<>> THEN 1
    ELSE IF LetterRank(Head(s)) < LetterRank(Head(t)) THEN -1
    ELSE IF LetterRank(Head(s)) > LetterRank(Head(t)) THEN 1
    ELSE CmpTag(Tail(s), Tail(t))

CmpInt(a, b) == IF a < b THEN -1 ELSE IF a > b THEN 1 ELSE 0

\* Ord for semver::Version: major, minor, patch, then the pre-release tag,
\* where a version without one is greater than the same version with one.
CmpVersion(a, b) ==
    IF a.major # b.major THEN CmpInt(a.major, b.major)
    ELSE IF a.minor # b.minor THEN CmpInt(a.minor, b.minor)
    ELSE IF a.patch # b.patch THEN CmpInt(a.patch, b.patch)
    ELSE IF a.pre = <<>> /\ b.pre = <<>> THEN 0
    ELSE IF a.pre = <<>> THEN 1
    ELSE IF b.pre = <<>> THEN -1
    ELSE CmpTag(a.pre, b.pre)

\* Display of a number and of a version, as the installed binary prints it.
RECURSIVE NumStr(_)
NumStr(n) ==
    IF n < 10 THEN <<DigitChars[n + 1]>>
    ELSE NumStr(n \div 10) \o <<DigitChars[(n % 10) + 1]>>

Fmt(v) ==
    NumStr(v.major) \o <<".">> \o NumStr(v.minor) \o <<".">> \o NumStr(v.patch)
    \o (IF v.pre = <<>> THEN <<>> ELSE <<"-">> \o v.pre)

\* The MAJOR.MINOR.PATCH versions the model draws from.
Releases ==
    { Version(ma, mi, pa, <<>>) : ma \in 0..MaxVer, mi \in 0..MaxVer, pa \in 0..MaxVer }

\* What an installed binary may print for --version: a release version and a
\* newline, and a few other texts.
VersionOutputs ==
    { Fmt(v) \o <<"\n">> : v \in Releases }
    \cup { <<"1", ".", "0", ".", "0">>,
           <<" ", "0", ".", "1", ".", "0", " ", "\n">>,
           <<"1", ".", "0", ".", "0", "-", "a", "\n">>,
           <<"0", ".", "1", ".", "0", "-", "b", "\n">>,
           <<"1", "0", ".", "0", ".", "0", "\n">>,
           <<>>,
           <<"\n">>,
           <<"v", "1", ".", "0", ".", "0", "\n">>,
           <<"1", ".", "0", "\n">>,
           <<"0", "1", ".", "0", ".", "0", "\n">>,
           <<"1", ".", "0", ".", "0", " ", "x", "\n">>,
           <<"1", ".", ".", "0", "\n">> }

(***************************************************************************)
(* Install manager and version sync: install_cli (60-100) and sync_cli     *)
(* (102-149).                                                              *)
(***************************************************************************)
\* Number of calls of sync_cli and install_cli the application makes.
MaxCalls == 2

\* The callers: the startup sync, and the install command of the frontend.
Callers == {"sync", "manual"}

\* The installed copy: absent, or a binary with its behaviour under --version
\* (runs: "ok", "launch_error" or "nonzero"; out: its standard output).
NotInstalled == [present |-> FALSE, runs |-> "launch_error", out |-> <<>>]
InstalledBinary(runs, out) == [present |-> TRUE, runs |-> runs, out |-> out]

\* What the installer script leaves behind: the sidecar, which reports the
\* application's version.
FreshInstall(app) == InstalledBinary("ok", Fmt(app) \o <<"\n">>)

InstalledStates ==
    {NotInstalled}
    \cup { InstalledBinary("ok", o) : o \in VersionOutputs }
    \cup { InstalledBinary("launch_error", <<>>),
           InstalledBinary("nonzero", <<"0", ".", "0", ".", "0", "\n">>) }

NoScript == [exists |-> FALSE, exec |-> FALSE]

\* Result<_, String>, and a panic.
NoResult == [kind |-> "none", val |-> ""]
Ok(v) == [kind |-> "ok", val |-> v]
Err(e) == [kind |-> "err", val |-> e]
Panicked(e) == [kind |-> "panic", val |-> e]

\* get_cli_install_path (35-41), when HOME is set.
InstallPath == "<home>/.opencode/bin/opencode"

InitSync ==
    /\ debugBuild \in BOOLEAN
    /\ unixTarget \in BOOLEAN
    /\ homeSet \in BOOLEAN
    /\ sidecarExists \in BOOLEAN
    /\ appVersion \in Releases
    /\ installed \in InstalledStates
    /\ tempScript = NoScript
    /\ pc = [p \in Callers |-> "idle"]
    /\ output = [p \in Callers |-> "none"]
    /\ result = [p \in Callers |-> NoResult]
    /\ log = [p \in Callers |-> <<>>]
    /\ atCall = [p \in Callers |-> installed]
    /\ calls = 0
    /\ latest = "none"
    /\ overlapped = [p \in Callers |-> FALSE]
    /\ prevSync = [result |-> NoResult, log |-> <<>>]

\* is_cli_installed (52-56): the existence probe is made only when
\* get_cli_install_path yields a path.
ProbesInstallPath == homeSet
IsCliInstalled == homeSet /\ installed.present

Logged(p, op) == log' = [log EXCEPT ![p] = Append(@, op)]

\* The call of p returns r. sync_cli hands on install_cli's error (144) and
\* turns its Ok into Ok(()) (148).
Finish(p, r) ==
    /\ pc' = [pc EXCEPT ![p] = "done"]
    /\ result' = [result EXCEPT ![p] =
                    IF p = "sync" /\ r.kind = "ok" THEN Ok("()") ELSE r]

InFlight(p) == pc[p] \notin {"idle", "done"}

\* No call is running.
NoCallInFlight == \A p \in Callers : ~InFlight(p)

\* A call of p begins: it overlaps the calls in flight, and they overlap it.
Overlaps(p) ==
    overlapped' = [q \in Callers |->
                     IF q = p THEN \E r \in Callers \ {p} : InFlight(r)
                     ELSE overlapped[q] \/ InFlight(q)]

\* The application calls sync_cli.
BeginSync ==
    /\ ~InFlight("sync")
    /\ calls < MaxCalls
    /\ Overlaps("sync")
    /\ prevSync' = [result |-> result["sync"], log |-> log["sync"]]
    /\ calls' = calls + 1
    /\ latest' = "sync"
    /\ pc' = [pc EXCEPT !["sync"] = "sync_enter"]
    /\ result' = [result EXCEPT !["sync"] = NoResult]
    /\ log' = [log EXCEPT !["sync"] = <<>>]
    /\ atCall' = [atCall EXCEPT !["sync"] = installed]
    /\ output' = [output EXCEPT !["sync"] = "none"]
    /\ UNCHANGED <<debugBuild, unixTarget, homeSet, sidecarExists, appVersion,
                   installed, tempScript>>
    /\ UNCHANGED <<serveVars, cmdVars>>

\* The frontend invokes the install_cli command.
BeginInstall ==
    /\ ~InFlight("manual")
    /\ calls < MaxCalls
    /\ Overlaps("manual")
    /\ UNCHANGED prevSync
    /\ calls' = calls + 1
    /\ latest' = "manual"
    /\ pc' = [pc EXCEPT !["manual"] = "install_enter"]
    /\ result' = [result EXCEPT !["manual"] = NoResult]
    /\ log' = [log EXCEPT !["manual"] = <<"install_cli">>]
    /\ atCall' = [atCall EXCEPT !["manual"] = installed]
    /\ output' = [output EXCEPT !["manual"] = "none"]
    /\ UNCHANGED <<debugBuild, unixTarget, homeSet, sidecarExists, appVersion,
                   installed, tempScript>>
    /\ UNCHANGED <<serveVars, cmdVars>>

\* The calls made one after the other, as the callers are required to.
CallSync == NoCallInFlight /\ BeginSync

CallInstall == NoCallInFlight /\ BeginInstall

\* Mutant of SyncEnter: the installation is probed before the debug check.
SyncEnterProbeFirst ==
    /\ pc["sync"] = "sync_enter"
    /\ IF ~ProbesInstallPath
       THEN Finish("sync", Ok("()")) /\ UNCHANGED log
       ELSE /\ Logged("sync", "probe_install")
            /\ IF debugBuild \/ ~IsCliInstalled
               THEN Finish("sync", Ok("()"))
               ELSE pc' = [pc EXCEPT !["sync"] = "sync_query"] /\ UNCHANGED result
    /\ UNCHANGED <<debugBuild, unixTarget, homeSet, sidecarExists, appVersion,
                   installed, tempScript, output, atCall, calls, latest, overlapped, prevSync>>
    /\ UNCHANGED <<serveVars, cmdVars>>

\* sync_cli, 103-114: the debug-build skip, then the installation probe.
SyncEnter ==
    /\ pc["sync"] = "sync_enter"
    /\ IF debugBuild
       THEN Finish("sync", Ok("()")) /\ UNCHANGED log
       ELSE IF ~ProbesInstallPath
       THEN Finish("sync", Ok("()")) /\ UNCHANGED log
       ELSE /\ Logged("sync", "probe_install")
            /\ IF ~IsCliInstalled
               THEN Finish("sync", Ok("()"))
               ELSE pc' = [pc EXCEPT !["sync"] = "sync_query"] /\ UNCHANGED result
    /\ UNCHANGED <<debugBuild, unixTarget, homeSet, sidecarExists, appVersion,
                   installed, tempScript, output, atCall, calls, latest, overlapped, prevSync>>
    /\ UNCHANGED <<serveVars, cmdVars>>

\* Mutant of ParseCliVersion: the output is parsed without trimming it.
ParseCliVersionNoTrim(out) == ParseVersion(out)

\* Mutant of ParseCliVersion: a text that does not parse counts as 0.0.0.
ParseCliVersionOrDefault(out) ==
    LET r == ParseVersion(Trim(out))
    IN IF r.ok THEN r ELSE [ok |-> TRUE, v |-> Version(0, 0, 0, <<>>)]

\* 125-127: the output is trimmed, then parsed.
ParseCliVersion(out) == ParseVersion(Trim(out))

\* Mutant of CliUpToDate: equal versions count as outdated.
CliNewer(cli, app) == CmpVersion(cli, app) > 0

\* 131: cli_version >= app_version.
CliUpToDate(cli, app) == CmpVersion(cli, app) >= 0

\* sync_cli, 116-144: the version query, the parse and the comparison; an
\* older installation leads into install_cli.
SyncQuery ==
    /\ pc["sync"] = "sync_query"
    /\ LET parsed == ParseCliVersion(installed.out)
       IN IF ~installed.present \/ installed.runs = "launch_error"
          THEN /\ Logged("sync", "version_query")
               /\ Finish("sync", Err("Failed to get CLI version: launch"))
          ELSE IF installed.runs = "nonzero"
          THEN /\ Logged("sync", "version_query")
               /\ Finish("sync", Err("Failed to get CLI version"))
          ELSE IF ~parsed.ok
          THEN /\ Logged("sync", "version_query")
               /\ Finish("sync", Err("Failed to parse CLI version"))
          ELSE IF CliUpToDate(parsed.v, appVersion)
          THEN /\ Logged("sync", "version_query")
               /\ Finish("sync", Ok("()"))
          ELSE /\ log' = [log EXCEPT !["sync"] = @ \o <<"version_query", "install_cli">>]
               /\ pc' = [pc EXCEPT !["sync"] = "install_enter"]
               /\ UNCHANGED result
    /\ UNCHANGED <<debugBuild, unixTarget, homeSet, sidecarExists, appVersion,
                   installed, tempScript, output, atCall, calls, latest, overlapped, prevSync>>
    /\ UNCHANGED <<serveVars, cmdVars>>

\* Mutant of InstallEnter: the sidecar is not looked for.
InstallEnterNoSidecarCheck(p) ==
    /\ pc[p] = "install_enter"
    /\ IF ~unixTarget
       THEN Finish(p, Err("CLI installation is only supported on macOS & Linux"))
       ELSE pc' = [pc EXCEPT ![p] = "install_write"] /\ UNCHANGED result
    /\ UNCHANGED <<debugBuild, unixTarget, homeSet, sidecarExists, appVersion,
                   installed, tempScript, output, log, atCall, calls, latest, overlapped, prevSync>>
    /\ UNCHANGED <<serveVars, cmdVars>>

\* install_cli, 63-70: the platform check, then get_sidecar_path (43-50),
\* whose expect panics when the current binary cannot be determined, then the
\* sidecar's existence.
InstallEnter(p) ==
    /\ pc[p] = "install_enter"
    /\ \E currentBinaryOk \in BOOLEAN :
        IF ~unixTarget
        THEN /\ currentBinaryOk
             /\ Finish(p, Err("CLI installation is only supported on macOS & Linux"))
             /\ UNCHANGED log
        ELSE IF ~currentBinaryOk
        THEN /\ Finish(p, Panicked("Failed to get current binary"))
             /\ UNCHANGED log
        ELSE /\ Logged(p, "probe_sidecar")
             /\ IF ~sidecarExists
                THEN Finish(p, Err("Sidecar binary not found"))
                ELSE pc' = [pc EXCEPT ![p] = "install_write"] /\ UNCHANGED result
    /\ UNCHANGED <<debugBuild, unixTarget, homeSet, sidecarExists, appVersion,
                   installed, tempScript, output, atCall, calls, latest, overlapped, prevSync>>
    /\ UNCHANGED <<serveVars, cmdVars>>

\* install_cli, 72-74: fs::write of the script; an existing file keeps its
\* mode, a new one is not executable.
InstallWrite(p) ==
    /\ pc[p] = "install_write"
    /\ Logged(p, "write_script")
    /\ \E written \in BOOLEAN :
        IF written
        THEN /\ tempScript' = [exists |-> TRUE, exec |-> tempScript.exec]
             /\ pc' = [pc EXCEPT ![p] = "install_chmod"]
             /\ UNCHANGED result
        ELSE /\ Finish(p, Err("Failed to write install script"))
             /\ UNCHANGED tempScript
    /\ UNCHANGED <<debugBuild, unixTarget, homeSet, sidecarExists, appVersion,
                   installed, output, atCall, calls, latest, overlapped, prevSync>>
    /\ UNCHANGED <<serveVars, cmdVars>>

\* Mutant of InstallChmod: the permissions are left as they were.
InstallChmodNoExec(p) ==
    /\ pc[p] = "install_chmod"
    /\ Logged(p, "chmod_script")
    /\ \E changed \in BOOLEAN :
        IF changed /\ tempScript.exists
        THEN /\ pc' = [pc EXCEPT ![p] = "install_run"]
             /\ UNCHANGED <<result, tempScript>>
        ELSE /\ Finish(p, Err("Failed to set script permissions"))
             /\ UNCHANGED tempScript
    /\ UNCHANGED <<debugBuild, unixTarget, homeSet, sidecarExists, appVersion,
                   installed, output, atCall, calls, latest, overlapped, prevSync>>
    /\ UNCHANGED <<serveVars, cmdVars>>

\* install_cli, 76-81: set_permissions(0o755); on failure `?` returns at once.
InstallChmod(p) ==
    /\ pc[p] = "install_chmod"
    /\ Logged(p, "chmod_script")
    /\ \E changed \in BOOLEAN :
        IF changed /\ tempScript.exists
        THEN /\ tempScript' = [tempScript EXCEPT !.exec = TRUE]
             /\ pc' = [pc EXCEPT ![p] = "install_run"]
             /\ UNCHANGED result
        ELSE /\ Finish(p, Err("Failed to set script permissions"))
             /\ UNCHANGED tempScript
    /\ UNCHANGED <<debugBuild, unixTarget, homeSet, sidecarExists, appVersion,
                   installed, output, atCall, calls, latest, overlapped, prevSync>>
    /\ UNCHANGED <<serveVars, cmdVars>>

\* install_cli, 83-87: the script is run with --binary <sidecar> and waited
\* for; a launch failure returns at once. A run that exits with status zero
\* has overwritten the installed copy.
InstallRun(p) ==
    /\ pc[p] = "install_run"
    /\ Logged(p, "run_script")
    /\ \E status \in {"launch_error", "zero", "nonzero"} :
        IF status = "launch_error" \/ ~(tempScript.exists /\ tempScript.exec)
        THEN /\ Finish(p, Err("Failed to run install script"))
             /\ UNCHANGED <<installed, output>>
        ELSE /\ output' = [output EXCEPT ![p] = status]
             /\ installed' = IF status = "zero" THEN FreshInstall(appVersion)
                             ELSE installed
             /\ pc' = [pc EXCEPT ![p] = "install_remove"]
             /\ UNCHANGED result
    /\ UNCHANGED <<debugBuild, unixTarget, homeSet, sidecarExists, appVersion,
                   tempScript, atCall, calls, latest, overlapped, prevSync>>
    /\ UNCHANGED <<serveVars, cmdVars>>

\* install_cli, 89-99: remove_file, its result discarded; then the exit
\* status decides, and the install path is the value of Ok.
InstallRemove(p) ==
    /\ pc[p] = "install_remove"
    /\ Logged(p, "remove_script")
    /\ \E removed \in BOOLEAN :
        tempScript' = IF removed THEN NoScript ELSE tempScript
    /\ IF output[p] # "zero"
       THEN Finish(p, Err("Install script failed: <stderr>"))
       ELSE IF ~homeSet
       THEN Finish(p, Err("Could not determine install path"))
       ELSE Finish(p, Ok(InstallPath))
    /\ UNCHANGED <<debugBuild, unixTarget, homeSet, sidecarExists, appVersion,
                   installed, output, atCall, calls, latest, overlapped, prevSync>>
    /\ UNCHANGED <<serveVars, cmdVars>>

NextSync ==
    \/ CallSync
    \/ CallInstall
    \/ SyncEnter
    \/ SyncQuery
    \/ \E p \in Callers :
        \/ InstallEnter(p)
        \/ InstallWrite(p)
        \/ InstallChmod(p)
        \/ InstallRun(p)
        \/ InstallRemove(p)

(***************************************************************************)
(* Shell escaper and command builder: shell_escape (167-176) and           *)
(* create_command (178-272). A text is a sequence of strings whose          *)
(* concatenation it is; quotes, blanks, "=", "$" and newlines are always    *)
(* strings of their own.                                                   *)
(***************************************************************************)
\* Longest argument of shell_escape the model draws.
MaxLen == 3

\* Most extra environment entries a caller of create_command passes.
MaxExtras == 2

\* Texts of length at most n over an alphabet.
TextsUpTo(alphabet, n) == UNION { [1..k -> alphabet] : k \in 0..n }

\* str::replace("'", "'\"'\"'").
RECURSIVE ReplaceQuotes(_)
ReplaceQuotes(s) ==
    IF s = <<>> THEN <<>>
    ELSE (IF Head(s) = "'" THEN <<"'", "\"", "'", "\"", "'">> ELSE <<Head(s)>>)
         \o ReplaceQuotes(Tail(s))

\* Mutant of ShellEscape: the input is wrapped in single quotes as it is.
ShellEscapeNoReplace(input) ==
    IF input = <<>> THEN <<"'", "'">> ELSE <<"'">> \o input \o <<"'">>

\* shell_escape (167-176).
ShellEscape(input) ==
    IF input = <<>> THEN <<"'", "'">>
    ELSE <<"'">> \o ReplaceQuotes(input) \o <<"'">>

\* The arguments of shell_escape the model draws.
EscapeAlphabet == {"'", "\"", " ", "$", "a"}
EscapeInputs == TextsUpTo(EscapeAlphabet, MaxLen)

NotEscaped == [done |-> FALSE, text |-> <<>>]

InitEscape ==
    /\ escIn \in EscapeInputs
    /\ escOut = NotEscaped

\* A call of shell_escape.
ShellEscapeCall ==
    /\ ~escOut.done
    /\ escOut' = [done |-> TRUE, text |-> ShellEscape(escIn)]
    /\ UNCHANGED <<cmdIn, cmdOut, escIn>>
    /\ UNCHANGED <<serveVars, syncVars>>

NextEscape == ShellEscapeCall

\* The four default entries (184-198) and the keys the bridge branch
\* hard-codes (221-231).
DefaultEnvs(stateDir) ==
    << <<"OPENCODE_EXPERIMENTAL_ICON_DISCOVERY", <<"true">>>>,
       <<"OPENCODE_EXPERIMENTAL_FILEWATCHER", <<"true">>>>,
       <<"OPENCODE_CLIENT", <<"desktop">>>>,
       <<"XDG_STATE_HOME", <<stateDir>>>> >>

ReservedKeys ==
    {"OPENCODE_EXPERIMENTAL_ICON_DISCOVERY", "OPENCODE_EXPERIMENTAL_FILEWATCHER",
     "OPENCODE_CLIENT", "XDG_STATE_HOME"}

\* Iterator::filter (227-231): the entries whose key is not reserved.
RECURSIVE NotReserved(_)
NotReserved(envs) ==
    IF envs = <<>> THEN <<>>
    ELSE (IF Head(envs)[1] \in ReservedKeys THEN <<>> ELSE <<Head(envs)>>)
         \o NotReserved(Tail(envs))

\* [T]::join: the texts with sep between them.
RECURSIVE Join(_, _)
Join(texts, sep) ==
    IF texts = <<>> THEN <<>>
    ELSE IF Len(texts) = 1 THEN texts[1]
    ELSE texts[1] \o sep \o Join(Tail(texts), sep)

\* 232: format!("{}={}", key, shell_escape(value)).
EnvAssignment(entry) == <<entry[1], "=">> \o ShellEscape(entry[2])

RECURSIVE MapAssignments(_)
MapAssignments(envs) ==
    IF envs = <<>> THEN <<>>
    ELSE <<EnvAssignment(Head(envs))>> \o MapAssignments(Tail(envs))

\* 220-233: the hard-coded assignments, then one for each entry that is
\* not reserved.
EnvPrefix(envs) ==
    << <<"OPENCODE_EXPERIMENTAL_ICON_DISCOVERY", "=", "true">>,
       <<"OPENCODE_EXPERIMENTAL_FILEWATCHER", "=", "true">>,
       <<"OPENCODE_CLIENT", "=", "desktop">>,
       <<"XDG_STATE_HOME", "=", "\"", "$HOME/.local/state", "\"">> >>
    \o MapAssignments(NotReserved(envs))

\* 213-216: the install command, with the escaped version.
InstallLine(version) ==
    <<" ", " ", "curl", " ", "-fsSL", " ", "https://opencode.ai/install", " ",
      "|", " ", "bash", " ", "-s", " ", "--", " ", "--version", " ">>
    \o ShellEscape(version) \o <<" ", "--no-modify-path">>

\* 235: the assignments, exec of the binary, the argument string.
ExecLine(envs, args) ==
    Join(EnvPrefix(envs), <<" ">>) \o <<" ", "exec", " ", "\"", "$BIN", "\"", " ">> \o args

\* Mutant of BridgeScript: the exec line comes before the install block.
BridgeScriptExecFirst(version, envs, args) ==
    Join(<< <<"set -e">>,
            <<"BIN=\"$HOME/.opencode/bin/opencode\"">>,
            ExecLine(envs, args),
            <<"if [ ! -x \"$BIN\" ]; then">>,
            InstallLine(version),
            <<"fi">> >>,
         <<"\n">>)

\* 209-218, 235, 240: the lines of the script, joined by newlines.
BridgeScript(version, envs, args) ==
    Join(<< <<"set -e">>,
            <<"BIN=\"$HOME/.opencode/bin/opencode\"">>,
            <<"if [ ! -x \"$BIN\" ]; then">>,
            InstallLine(version),
            <<"fi">>,
            ExecLine(envs, args) >>,
         <<"\n">>)

\* Command::env on each entry in turn (248-250, 266-268): a later entry
\* replaces an earlier one of the same key.
RECURSIVE EnvOf(_)
EnvOf(envs) ==
    IF envs = <<>> THEN <<>>
    ELSE LET before == EnvOf(SubSeq(envs, 1, Len(envs) - 1))
             last == envs[Len(envs)]
         IN [k \in DOMAIN before \cup {last[1]} |->
               IF k = last[1] THEN last[2] ELSE before[k]]

\* str::split_whitespace (246).
RECURSIVE SplitWhitespace(_)
SplitWhitespace(s) ==
    IF s = <<>> THEN <<>>
    ELSE IF Head(s) \in WhiteChars THEN SplitWhitespace(Tail(s))
    ELSE LET n == CHOOSE k \in 1..Len(s) :
                    /\ \A i \in 1..k : s[i] \notin WhiteChars
                    /\ k = Len(s) \/ s[k + 1] \in WhiteChars
         IN <<SubSeq(s, 1, n)>> \o SplitWhitespace(SubSeq(s, n + 1, Len(s)))

\* str::ends_with.
EndsWith(s, suffix) ==
    /\ Len(s) >= Len(suffix)
    /\ SubSeq(s, Len(s) - Len(suffix) + 1, Len(s)) = suffix

\* get_user_shell (151-153).
GetUserShell(shellVar) ==
    IF shellVar = None THEN <<"/", "b", "i", "n", "/", "s", "h">> ELSE shellVar[1]

\* is_wsl_enabled (155-165): false unless the store opens and holds true.
IsWslEnabled(store) == store = "true"

\* get_sidecar_path (43-50), displayed.
SidecarPath == "<exe dir>/opencode-cli"

\* Mutant of UnixCommandLine: the caret is put before the command for any
\* shell whose name ends in nu.
UnixCommandLineAnyNu(shell, args) ==
    (IF EndsWith(shell, <<"n", "u">>) THEN <<"^">> ELSE <<>>)
    \o <<"\"", SidecarPath, "\"", " ">> \o args

\* 258-262: the quoted worker path and the argument string, after a caret
\* for nushell.
UnixCommandLine(shell, args) ==
    (IF EndsWith(shell, <<"/", "n", "u">>) THEN <<"^">> ELSE <<>>)
    \o <<"\"", SidecarPath, "\"", " ">> \o args

NoCommand == [kind |-> "none", program |-> <<>>, args |-> <<>>, env |-> <<>>]
Command(program, args, env) ==
    [kind |-> "command", program |-> program, args |-> args, env |-> env]
CommandPanic == [kind |-> "panic", program |-> <<>>, args |-> <<>>, env |-> <<>>]

\* Mutant of MergedEnvs: the defaults are put after the extras.
MergedEnvsDefaultsLast(stateDir, extras) == extras \o DefaultEnvs(stateDir)

\* 184-203: the defaults, then the caller's entries.
MergedEnvs(stateDir, extras) == DefaultEnvs(stateDir) \o extras

\* create_command (178-272). The expects and the unwrap panic when the local
\* data directory (179-182), the sidecar (244-245) or the current binary
\* (255) cannot be resolved.
BuildCommand(in, stateDirOk, binaryOk) ==
    IF ~stateDirOk THEN CommandPanic
    ELSE LET envs == MergedEnvs(in.stateDir, in.extras)
         IN IF in.windows
            THEN IF IsWslEnabled(in.store)
                 THEN Command(<<"wsl">>,
                              << <<"-e">>, <<"bash">>, <<"-lc">>,
                                 BridgeScript(in.version, envs, in.args) >>,
                              <<>>)
                 ELSE IF ~binaryOk THEN CommandPanic
                 ELSE Command(<<"sidecar:opencode-cli">>,
                              SplitWhitespace(in.args), EnvOf(envs))
            ELSE IF ~binaryOk THEN CommandPanic
            ELSE LET shell == GetUserShell(in.shellVar)
                 IN Command(shell,
                            << <<"-il">>, <<"-c">>, UnixCommandLine(shell, in.args) >>,
                            EnvOf(envs))

\* The inputs of create_command the model draws.
ShellVars ==
    { None,
      Some(<<"/", "b", "i", "n", "/", "z", "s", "h">>),
      Some(<<"/", "b", "i", "n", "/", "n", "u">>),
      Some(<<"/", "b", "i", "n", "/", "m", "e", "n", "u">>) }

ArgStrings ==
    { <<>>,
      <<"--version">>,
      <<"serve", " ", "--port", " ", "4096">>,
      <<"debug", " ", " ", "config">> }

ExtraKeys == {"FOO", "OPENCODE_CLIENT", "XDG_STATE_HOME"}
ExtraValues == { <<"v">>, <<"it", "'", "s", " ", "x">> }
ExtraEntries == { <<k, v>> : k \in ExtraKeys, v \in ExtraValues }

VersionTexts ==
    { Fmt(Version(0, 1, 0, <<>>)), Fmt(Version(1, 0, 0, <<"a">>)) }

CommandInputs ==
    [ windows : BOOLEAN,
      store : {"unavailable", "false", "true"},
      shellVar : ShellVars,
      args : ArgStrings,
      extras : TextsUpTo(ExtraEntries, MaxExtras),
      version : VersionTexts,
      stateDir : {"<local data dir>"} ]

InitCommand ==
    /\ cmdIn \in CommandInputs
    /\ cmdOut = NoCommand

\* A call of create_command.
CreateCommand ==
    /\ cmdOut.kind = "none"
    /\ \E stateDirOk \in BOOLEAN, binaryOk \in BOOLEAN :
        cmdOut' = BuildCommand(cmdIn, stateDirOk, binaryOk)
    /\ UNCHANGED <<cmdIn, escIn, escOut>>
    /\ UNCHANGED <<serveVars, syncVars>>

NextCommand == CreateCommand

\* No call of create_command.
NoCommandCall ==
    /\ cmdIn = [windows |-> FALSE, store |-> "false", shellVar |-> None,
                args |-> <<>>, extras |-> <<>>,
                version |-> Fmt(Version(0, 1, 0, <<>>)),
                stateDir |-> "<local data dir>"]
    /\ cmdOut = NoCommand

\* No call of shell_escape.
NoEscapeCall ==
    /\ escIn = <<>>
    /\ escOut = NotEscaped

CommandAtRest == NoCommandCall /\ NoEscapeCall

(***************************************************************************)
(* Specifications.                                                         *)
(***************************************************************************)
\* The environment while only the supervisor is looked at: a release build
\* on Unix, nothing installed, no call of sync_cli or install_cli.
SyncAtRest ==
    /\ debugBuild = FALSE
    /\ unixTarget = TRUE
    /\ homeSet = TRUE
    /\ sidecarExists = TRUE
    /\ appVersion = Version(0, 0, 0, <<>>)
    /\ installed = NotInstalled
    /\ tempScript = NoScript
    /\ pc = [p \in Callers |-> "idle"]
    /\ output = [p \in Callers |-> "none"]
    /\ result = [p \in Callers |-> NoResult]
    /\ log = [p \in Callers |-> <<>>]
    /\ atCall = [p \in Callers |-> installed]
    /\ calls = 0
    /\ latest = "none"
    /\ overlapped = [p \in Callers |-> FALSE]
    /\ prevSync = [result |-> NoResult, log |-> <<>>]

InitSupervisor == InitServe /\ SyncAtRest /\ CommandAtRest

\* The supervisor: its spawns, with any events on their streams.
SpecServe == InitSupervisor /\ [][NextServe]_vars

\* The tokio scheduler runs every task that is ready.
FairSpecServe == SpecServe /\ \A s \in Spawns : WF_vars(ConsumerStep(s))

\* The install manager and the version sync, their calls one after another.
InitInstall == InitServe /\ InitSync /\ CommandAtRest

SpecSync == InitInstall /\ [][NextSync]_vars

\* Overlapping calls of sync_cli and install_cli, in the environment in which
\* install_cli gets as far as the script: a release build on Unix with HOME
\* set and the sidecar present.
InitOverlap ==
    /\ InitServe
    /\ CommandAtRest
    /\ debugBuild = FALSE
    /\ unixTarget = TRUE
    /\ homeSet = TRUE
    /\ sidecarExists = TRUE
    /\ appVersion = Version(0, 0, 1, <<>>)
    /\ installed \in {NotInstalled, FreshInstall(Version(0, 0, 0, <<>>))}
    /\ tempScript = NoScript
    /\ pc = [p \in Callers |-> "idle"]
    /\ output = [p \in Callers |-> "none"]
    /\ result = [p \in Callers |-> NoResult]
    /\ log = [p \in Callers |-> <<>>]
    /\ atCall = [p \in Callers |-> installed]
    /\ calls = 0
    /\ latest = "none"
    /\ overlapped = [p \in Callers |-> FALSE]
    /\ prevSync = [result |-> NoResult, log |-> <<>>]

NextOverlap ==
    \/ BeginSync
    \/ BeginInstall
    \/ SyncEnter
    \/ SyncQuery
    \/ \E p \in Callers :
        \/ InstallEnter(p)
        \/ InstallWrite(p)
        \/ InstallChmod(p)
        \/ InstallRun(p)
        \/ InstallRemove(p)

SpecOverlap == InitOverlap /\ [][NextOverlap]_vars

InitShellEscape == InitServe /\ SyncAtRest /\ NoCommandCall /\ InitEscape

SpecEscape == InitShellEscape /\ [][NextEscape]_vars

InitCreateCommand == InitServe /\ SyncAtRest /\ NoEscapeCall /\ InitCommand

SpecCommand == InitCreateCommand /\ [][NextCommand]_vars

(***************************************************************************)
(* Properties of the process supervisor.                                   *)
(***************************************************************************)
\* The Terminated events among the first n events of a stream, in order.
RECURSIVE TerminatedIn(_, _)
TerminatedIn(evs, n) ==
    IF n = 0 THEN <<>>
    ELSE IF evs[n].kind = "Terminated"
         THEN Append(TerminatedIn(evs, n - 1), evs[n].payload)
         ELSE TerminatedIn(evs, n - 1)

Received(s) == TerminatedIn(events[s], pos[s])
Delivered(s) == TerminatedIn(events[s], Len(events[s]))

\* C1: for every spawn the termination signal is sent at most once: exactly
\* the first Terminated event the task receives calls send, no later event
\* does, and once the receiver's view is settled no step changes it.
SignalFulfilledAtMostOnce ==
    /\ [](\A s \in Spawns : sends[s] = IF Received(s) = <<>> THEN 0 ELSE 1)
    /\ [][\A s \in Spawns : chan[s].kind # "pending" => chan'[s] = chan[s]]_vars

\* C1 witness: a second Terminated event was received after the signal was
\* fulfilled.
SecondTerminatedReceived ==
    \E s \in Spawns :
        /\ Len(Received(s)) >= 2
        /\ sends[s] = 1
        /\ chan[s].kind = "sent"

\* C2: a receiver that resolves with a payload holds the payload of the first
\* Terminated event of its own spawn's stream.
PayloadIsFirstTerminated ==
    \A s \in Spawns :
        chan[s].kind = "sent" =>
            /\ Received(s) # <<>>
            /\ chan[s].payload = Delivered(s)[1]

\* C2 witness: two spawns have terminated with different payloads and each
\* receiver holds a payload.
FirstPayloadAmongOthers ==
    \E s \in Spawns : \E o \in Spawns \ {s} :
        /\ chan[s].kind = "sent"
        /\ chan[o].kind = "sent"
        /\ chan[o].payload # chan[s].payload

\* C3: a stream that closes without a Terminated event leads to the task
\* ending and the receiver resolving to the closed outcome, which is no exit
\* payload.
ClosedStreamResolvesReceiver ==
    \A s \in Spawns :
        (closed[s] /\ Delivered(s) = <<>>)
            ~> (/\ task[s] = "done"
                /\ chan[s] = ChanClosed
                /\ \A p \in Payloads \cup {NoPayload} : chan[s] # ChanSent(p))

\* C3 witness: events were consumed, the stream closed with no Terminated
\* event, and the receiver is resolved as closed.
ClosedWithoutTerminated ==
    \E s \in Spawns :
        /\ closed[s]
        /\ Len(events[s]) >= 1
        /\ Delivered(s) = <<>>
        /\ task[s] = "done"
        /\ chan[s] = ChanClosed

\* C4: while the stream is open and the task has received no Terminated
\* event, the task runs on and the receiver is pending, never sent to.
PendingUntilTerminated ==
    \A s \in Spawns :
        (serveState[s] = "returned" /\ ~closed[s] /\ Received(s) = <<>>) =>
            /\ chan[s] = ChanPending
            /\ sends[s] = 0
            /\ task[s] = "running"

\* C4 witness: an Error event and another non-Terminated event were received
\* on an open stream and the receiver is still pending.
PendingAfterOtherEvents ==
    \E s \in Spawns :
        /\ ~closed[s]
        /\ pos[s] >= 2
        /\ Received(s) = <<>>
        /\ \E i \in 1..pos[s] : events[s][i].kind = "Error"
        /\ \E i \in 1..pos[s] : events[s][i].kind # "Error"
        /\ chan[s] = ChanPending

\* C5: a failed spawn is handed back to the caller; serve does not panic.
SpawnFailureIsReturned == \A s \in Spawns : serveState[s] # "panicked"

\* C5: where the spawn failed, no task runs and no receiver is pending.
NothingLeftAfterSpawnFailure ==
    \E s \in Spawns :
        /\ serveState[s] = "panicked"
        /\ task[s] = "none"
        /\ chan[s] # ChanPending

(***************************************************************************)
(* Properties of the version sync and the install manager.                 *)
(***************************************************************************)
\* Number of times op occurs in a log.
RECURSIVE Count(_, _)
Count(l, op) ==
    IF l = <<>> THEN 0
    ELSE (IF Head(l) = op THEN 1 ELSE 0) + Count(Tail(l), op)

\* The call of p has returned and no call began after it.
Returned(p) == pc[p] = "done" /\ latest = p

\* sync_cli found an installation when its call began.
FoundInstalled == ~debugBuild /\ homeSet /\ atCall["sync"].present

\* The installed version as sync_cli reads it: the query's trimmed output.
QueriedVersion == ParseVersion(Trim(atCall["sync"].out))

\* MAJOR.MINOR.PATCH compared field by field.
FieldwiseLess(a, b) ==
    \/ a.major < b.major
    \/ a.major = b.major /\ a.minor < b.minor
    \/ a.major = b.major /\ a.minor = b.minor /\ a.patch < b.patch

\* C6: in a release build with an installation whose version is queried and
\* parsed as MAJOR.MINOR.PATCH, a call of sync_cli invokes install_cli once
\* if installed < app and never if installed >= app; in the latter case it
\* returns Ok and the installed state is as it was.
SyncInstallsIffOlder ==
    (/\ Returned("sync")
     /\ FoundInstalled
     /\ atCall["sync"].runs = "ok"
     /\ QueriedVersion.ok
     /\ QueriedVersion.v.pre = <<>>) =>
        IF FieldwiseLess(QueriedVersion.v, appVersion)
        THEN Count(log["sync"], "install_cli") = 1
        ELSE /\ Count(log["sync"], "install_cli") = 0
             /\ result["sync"] = Ok("()")
             /\ installed = atCall["sync"]

\* C6 witness: the installed version is older by its minor field although
\* its patch field is larger, and install_cli was invoked once.
SyncInstalledOlderMinor ==
    /\ Returned("sync")
    /\ FoundInstalled
    /\ atCall["sync"].runs = "ok"
    /\ QueriedVersion.ok
    /\ QueriedVersion.v.pre = <<>>
    /\ QueriedVersion.v.major = appVersion.major
    /\ QueriedVersion.v.minor < appVersion.minor
    /\ QueriedVersion.v.patch > appVersion.patch
    /\ Count(log["sync"], "install_cli") = 1

\* C7: a call of install_cli that wrote the temporary script has deleted it
\* when it returns.
ScriptDeletedOnReturn ==
    \A p \in Callers :
        (Returned(p) /\ Count(log[p], "chmod_script") > 0) => ~tempScript.exists

\* C8: in a debug build sync_cli does nothing at all and returns Ok; in a
\* release build with no installation it returns Ok having made no version
\* query and no call of install_cli.
SyncSkips ==
    /\ debugBuild => log["sync"] = <<>>
    /\ (~debugBuild /\ latest = "sync" /\ ~(homeSet /\ atCall["sync"].present)) =>
          /\ Count(log["sync"], "version_query") = 0
          /\ Count(log["sync"], "install_cli") = 0
          /\ Len(log["sync"]) <= 1
    /\ (Returned("sync") /\ ~FoundInstalled) =>
          /\ result["sync"] = Ok("()")
          /\ installed = atCall["sync"]

\* C8 witness: a debug build returned Ok from sync_cli with nothing done,
\* although an older installation is present.
DebugSyncSkipped ==
    /\ Returned("sync")
    /\ debugBuild
    /\ homeSet
    /\ atCall["sync"].present
    /\ atCall["sync"].runs = "ok"
    /\ QueriedVersion.ok
    /\ FieldwiseLess(QueriedVersion.v, appVersion)
    /\ result["sync"] = Ok("()")
    /\ log["sync"] = <<>>

\* The version query of the installation sync_cli found fails, or its
\* trimmed output is no semantic version.
QueryUnusable == atCall["sync"].runs # "ok" \/ ~QueriedVersion.ok

\* C9: when the version query fails or its output does not parse, sync_cli
\* returns an error, install_cli is not invoked and the installed state is
\* as it was.
SyncFailsOnUnusableVersion ==
    (latest = "sync" /\ FoundInstalled /\ QueryUnusable) =>
        /\ Count(log["sync"], "install_cli") = 0
        /\ installed = atCall["sync"]
        /\ pc["sync"] = "done" => result["sync"].kind = "err"

\* C9 witness: the query ran, its output does not parse, the application's
\* version is above 0.0.0, and sync_cli returned an error.
SyncFailedOnBadOutput ==
    /\ Returned("sync")
    /\ FoundInstalled
    /\ atCall["sync"].runs = "ok"
    /\ ~QueriedVersion.ok
    /\ Trim(atCall["sync"].out) # <<>>
    /\ FieldwiseLess(Version(0, 0, 0, <<>>), appVersion)
    /\ result["sync"].kind = "err"
    /\ Count(log["sync"], "version_query") = 1

\* What install_cli does after its two checks.
TouchesScript(p) ==
    Count(log[p], "write_script") + Count(log[p], "chmod_script")
    + Count(log[p], "run_script") + Count(log[p], "remove_script") > 0

\* C10: install_cli returns the platform error on a non-Unix target and the
\* sidecar error on Unix when the sidecar is looked for and is absent; in
\* both cases nothing was written or launched and the installed state is as
\* it was.
InstallRejectsEarly ==
    \A p \in Callers :
        (latest = p /\ Count(log[p], "install_cli") > 0) =>
            /\ (~unixTarget \/ ~sidecarExists) =>
                  ~TouchesScript(p) /\ installed = atCall[p]
            /\ (~unixTarget /\ pc[p] = "done") =>
                  /\ result[p] = Err("CLI installation is only supported on macOS & Linux")
                  /\ Count(log[p], "probe_sidecar") = 0
            /\ (unixTarget /\ ~sidecarExists /\ Count(log[p], "probe_sidecar") > 0) =>
                  /\ pc[p] = "done"
                  /\ result[p] = Err("Sidecar binary not found")

\* C10 witness: on Unix a call of install_cli returned the sidecar error.
SidecarMissingReturned ==
    \E p \in Callers :
        /\ Returned(p)
        /\ unixTarget
        /\ ~sidecarExists
        /\ Count(log[p], "probe_sidecar") = 1
        /\ result[p] = Err("Sidecar binary not found")
        /\ tempScript = NoScript

\* C17: a returned call of install_cli yields the install path exactly when
\* the script ran and exited with status zero, and the script-execution error
\* when it exited non-zero.
InstallOkIffScriptSucceeded ==
    \A p \in Callers :
        (Returned(p) /\ Count(log[p], "install_cli") > 0) =>
            /\ output[p] = "zero" <=>
                  result[p] = (IF p = "sync" THEN Ok("()") ELSE Ok(InstallPath))
            /\ output[p] = "nonzero" =>
                  result[p] = Err("Install script failed: <stderr>")

(***************************************************************************)
(* Further properties of the process supervisor.                           *)
(***************************************************************************)
\* The first n events of the stream are all Error events.
OnlyErrors(evs, n) == \A i \in 1..n : evs[i].kind = "Error"

\* C20: the consumer task ends only on a closed, drained stream; every
\* Terminated event it has received, whatever came before, has been sent to
\* a receiver still held; and a closed stream leads to the task's end.
TaskEndsOnlyOnClose ==
    /\ [](\A s \in Spawns :
            /\ task[s] = "done" => closed[s] /\ pos[s] = Len(events[s])
            /\ Received(s) # <<>> =>
                  /\ sends[s] = 1
                  /\ rxAlive[s] => chan[s] = ChanSent(Received(s)[1]))
    /\ \A s \in Spawns : closed[s] ~> task[s] = "done"

\* C20 witness: a Terminated event received after an Error event fulfilled
\* the signal, and the task runs on while the stream is open.
TerminatedAfterError ==
    \E s \in Spawns :
        /\ pos[s] >= 2
        /\ OnlyErrors(events[s], pos[s] - 1)
        /\ events[s][pos[s]].kind = "Terminated"
        /\ chan[s] = ChanSent(events[s][pos[s]].payload)
        /\ task[s] = "running"
        /\ ~closed[s]

(***************************************************************************)
(* POSIX shell reading of a text (XCU 2.2, 2.3, 2.6): the words it splits  *)
(* into after quote removal. Inside single quotes every character is       *)
(* literal; inside double quotes and outside quotes "$" starts an           *)
(* expansion, which the reading marks; a text that ends inside quotes has   *)
(* no reading.                                                             *)
(***************************************************************************)
Expansion == "<expansion>"
Unreadable == << <<"<unterminated quote>">> >>

\* The reader's state: whether it is inside quotes, the word it is in, and
\* the words it has finished.
ReadStart == [mode |-> "plain", cur |-> <<>>, inWord |-> FALSE, words |-> <<>>]

\* One character read. With raw the words keep their quotes and dollar signs:
\* the text is only split at the blanks outside quotes.
ReadChar(c, raw, st) ==
    LET lit == [st EXCEPT !.cur = Append(@, c), !.inWord = TRUE]
        quote(m) == [mode |-> m, cur |-> IF raw THEN Append(st.cur, c) ELSE st.cur,
                     inWord |-> TRUE, words |-> st.words]
        dollar == IF raw THEN lit
                  ELSE [st EXCEPT !.cur = Append(@, Expansion), !.inWord = TRUE]
    IN CASE st.mode = "single" -> IF c = "'" THEN quote("plain") ELSE lit
         [] st.mode = "double" ->
              IF c = "\"" THEN quote("plain") ELSE IF c = "$" THEN dollar ELSE lit
         [] OTHER ->
              IF c = "'" THEN quote("single")
              ELSE IF c = "\"" THEN quote("double")
              ELSE IF c \in WhiteChars
                   THEN [mode |-> "plain", cur |-> <<>>, inWord |-> FALSE,
                         words |-> IF st.inWord THEN Append(st.words, st.cur)
                                   ELSE st.words]
              ELSE IF c = "$" THEN dollar
              ELSE lit

\* The text read from state st: blanks between words are passed over, and a
\* longer text is read one half after the other.
RECURSIVE ShellRead(_, _, _)
ShellRead(text, raw, st) ==
    IF text = <<>> THEN st
    ELSE IF st.mode = "plain" /\ ~st.inWord /\ Head(text) \in WhiteChars
         THEN ShellRead(Tail(text), raw, st)
    ELSE IF Len(text) = 1 THEN ReadChar(text[1], raw, st)
    ELSE LET half == Len(text) \div 2
         IN ShellRead(SubSeq(text, half + 1, Len(text)), raw,
                      ShellRead(SubSeq(text, 1, half), raw, st))

ReadEnd(st) ==
    IF st.mode # "plain" THEN Unreadable
    ELSE IF st.inWord THEN Append(st.words, st.cur) ELSE st.words

ShellWords(text) == ReadEnd(ShellRead(text, FALSE, ReadStart))
RawWords(text) == ReadEnd(ShellRead(text, TRUE, ReadStart))

\* C13: a POSIX shell reads shell_escape(s) as the one word s, and
\* shell_escape of the empty string is two single quotes.
EscapeRoundTrips ==
    escOut.done =>
        /\ ShellWords(escOut.text) = <<escIn>>
        /\ (escIn = <<>> => escOut.text = <<"'", "'">>)

\* C13 witness: a string with a single quote, a double quote and a dollar
\* sign has been escaped.
EscapedQuotesAndDollar ==
    /\ escOut.done
    /\ {"'", "\"", "$"} \subseteq {escIn[i] : i \in 1..Len(escIn)}


(***************************************************************************)
(* Reading the command create_command returned.                            *)
(***************************************************************************)
\* The lines of a text.
Lines(text) ==
    LET nl == {i \in 1..Len(text) : text[i] = "\n"}
        n == Cardinality(nl) + 1
        brk(k) == IF k = 0 THEN 0
                  ELSE IF k = n THEN Len(text) + 1
                  ELSE CHOOSE i \in nl : Cardinality({j \in nl : j < i}) = k - 1
    IN [k \in 1..n |-> SubSeq(text, brk(k - 1) + 1, brk(k) - 1)]

BridgeCall ==
    cmdOut.kind = "command" /\ cmdIn.windows /\ cmdIn.store = "true"
NativeWindowsCall ==
    cmdOut.kind = "command" /\ cmdIn.windows /\ cmdIn.store # "true"
UnixCall ==
    cmdOut.kind = "command" /\ ~cmdIn.windows

ScriptLines == Lines(cmdOut.args[Len(cmdOut.args)])
LastLine == ScriptLines[Len(ScriptLines)]

\* The index of the first word w, or 0.
First(words, w) ==
    IF \E i \in 1..Len(words) : words[i] = w
    THEN CHOOSE i \in 1..Len(words) :
            words[i] = w /\ \A j \in 1..(i - 1) : words[j] # w
    ELSE 0

\* The words before the exec word of the last line, as the shell reads them
\* and as they are written.
Before(words) == SubSeq(words, 1, First(words, <<"exec">>) - 1)
After(words) == SubSeq(words, First(words, <<"exec">>) + 2, Len(words))
Assignments == Before(ShellWords(LastLine))
RawAssignments == Before(RawWords(LastLine))

\* The caller's entries whose key is none of the four defaults' keys, and
\* the positions of the caller's entries of key k.
FreeExtras == SelectSeq(cmdIn.extras, LAMBDA e : e[1] \notin ReservedKeys)
ExtrasOf(k) == {i \in 1..Len(cmdIn.extras) : cmdIn.extras[i][1] = k}
LastExtra(k) == cmdIn.extras[CHOOSE i \in ExtrasOf(k) : \A j \in ExtrasOf(k) : j <= i][2]

\* C11: in the bridge branch no key is assigned twice on the exec line.
NoKeyTwiceInExecLine ==
    BridgeCall =>
        \A i, j \in 1..Len(Assignments) :
            i # j => Assignments[i][1] # Assignments[j][1]

\* C11 witness: a bridge script built from extras that repeat a key that is
\* not reserved.
BridgeExtrasRepeatFreeKey ==
    /\ BridgeCall
    /\ \E k \in ExtraKeys \ ReservedKeys :
        \E i, j \in ExtrasOf(k) : i # j

\* The word after --version on the install line, as written.
VersionWord ==
    LET words == RawWords(ScriptLines[4])
    IN words[First(words, <<"--version">>) + 1]

\* C12: in the bridge branch the version, every extra key, every extra
\* value and the argument string are written in the script as shell_escape
\* returns them.
EveryValueEscaped ==
    BridgeCall =>
        /\ VersionWord = ShellEscape(cmdIn.version)
        /\ Len(RawAssignments) = 4 + Len(FreeExtras)
        /\ \A i \in 1..Len(FreeExtras) :
            RawAssignments[4 + i] =
                ShellEscape(<<FreeExtras[i][1]>>) \o <<"=">> \o ShellEscape(FreeExtras[i][2])
        /\ After(RawWords(LastLine)) = <<ShellEscape(cmdIn.args)>>

\* C12 witness: a bridge script built from an extra entry with a free key
\* and from a non-empty argument string, in which the version and the value
\* are escaped and the key and the arguments are not.
BridgeKeyAndArgsRaw ==
    /\ BridgeCall
    /\ cmdIn.args # <<>>
    /\ Len(FreeExtras) > 0
    /\ VersionWord = ShellEscape(cmdIn.version)
    /\ RawAssignments[5] = <<FreeExtras[1][1], "=">> \o ShellEscape(FreeExtras[1][2])
    /\ After(RawWords(LastLine)) = RawWords(cmdIn.args)

\* The value the target process gets for key k: the last assignment of k on
\* the exec line in the bridge branch, the command's environment otherwise.
TargetEnv(k) ==
    IF BridgeCall
    THEN LET at == {i \in 1..Len(Assignments) : Assignments[i][1] = k}
             word == Assignments[CHOOSE i \in at : \A j \in at : j <= i]
         IN SubSeq(word, 3, Len(word))
    ELSE cmdOut.env[k]

\* What the bridge script assigns to the four reserved keys.
BridgeValue(k) ==
    CASE k = "OPENCODE_CLIENT" -> <<"desktop">>
      [] k = "XDG_STATE_HOME" -> <<"$HOME/.local/state">>
      [] OTHER -> <<"true">>

\* C14 as stated: in every branch the target process gets the caller's
\* value for a default's key.
ExtraShadowsDefaultEverywhere ==
    cmdOut.kind = "command" =>
        \A k \in ReservedKeys :
            ExtrasOf(k) # {} => TargetEnv(k) = LastExtra(k)

\* C14: in the two native branches the target process gets the caller's
\* value for a default's key; in the bridge branch it gets the value the
\* script hard-codes, whatever the caller passed.
ExtraShadowsDefaultNatively ==
    cmdOut.kind = "command" =>
        \A k \in ReservedKeys :
            ExtrasOf(k) # {} =>
                TargetEnv(k) = IF BridgeCall THEN BridgeValue(k) ELSE LastExtra(k)

\* C14 witness: a native command whose extras give OPENCODE_CLIENT a value
\* other than the default.
NativeExtraShadowsClient ==
    /\ NativeWindowsCall \/ UnixCall
    /\ ExtrasOf("OPENCODE_CLIENT") # {}
    /\ cmdOut.env["OPENCODE_CLIENT"] = <<"it", "'", "s", " ", "x">>

\* C18: the bridge command is wsl -e bash -lc script, and the script's lines
\* are strict-error mode, the binary's path, the install block (test, install
\* command, fi) and one exec line: assignments, exec "$BIN", and the
\* argument string at its end as it was passed.
BridgeScriptShape ==
    BridgeCall =>
        /\ cmdOut.program = <<"wsl">>
        /\ Len(cmdOut.args) = 4
        /\ SubSeq(cmdOut.args, 1, 3) = << <<"-e">>, <<"bash">>, <<"-lc">> >>
        /\ Len(ScriptLines) = 6
        /\ ScriptLines[1] = <<"set -e">>
        /\ ScriptLines[2] = <<"BIN=\"$HOME/.opencode/bin/opencode\"">>
        /\ ScriptLines[3] = <<"if [ ! -x \"$BIN\" ]; then">>
        /\ RawWords(ScriptLines[4])[1] = <<"curl">>
        /\ ScriptLines[5] = <<"fi">>
        /\ \A i \in 1..5 : First(RawWords(ScriptLines[i]), <<"exec">>) = 0
        /\ LET words == RawWords(LastLine)
               at == First(words, <<"exec">>)
           IN /\ at > 0
              /\ \A i \in 1..(at - 1) : Len(words[i]) >= 2 /\ words[i][2] = "="
              /\ words[at + 1] = <<"\"", "$BIN", "\"">>
        /\ EndsWith(LastLine, <<" ">> \o cmdIn.args)

\* C18 witness: a bridge script for the arguments serve --port 4096.
BridgeServeScript ==
    /\ BridgeCall
    /\ cmdIn.args = <<"serve", " ", "--port", " ", "4096">>
    /\ Len(cmdIn.extras) = 2

\* C19: a command comes from one branch. On a target other than Windows the
\* program is SHELL, or /bin/sh without it, the arguments are -il -c and a
\* line made of the quoted worker path, a blank and the argument string, and
\* the line has a caret in front exactly if the shell ends in /nu.
UnixBranchShape ==
    /\ cmdOut.kind = "command" =>
        /\ cmdOut.program = <<"wsl">> <=> BridgeCall
        /\ cmdOut.program = <<"sidecar:opencode-cli">> <=> NativeWindowsCall
    /\ UnixCall =>
        LET shell == cmdOut.program
            line == cmdOut.args[3]
            caret == line # <<>> /\ line[1] = "^"
            nu == Len(shell) >= 3 /\ SubSeq(shell, Len(shell) - 2, Len(shell)) = <<"/", "n", "u">>
        IN /\ shell = IF cmdIn.shellVar = None
                      THEN <<"/", "b", "i", "n", "/", "s", "h">>
                      ELSE cmdIn.shellVar[1]
           /\ Len(cmdOut.args) = 3
           /\ cmdOut.args[1] = <<"-il">>
           /\ cmdOut.args[2] = <<"-c">>
           /\ caret <=> nu
           /\ (IF caret THEN Tail(line) ELSE line)
                = <<"\"", SidecarPath, "\"", " ">> \o cmdIn.args

\* C19 witness: on Unix with the bridge flag set and SHELL=/bin/nu, the
\* command has the caret.
NuCommandWithBridgeFlag ==
    /\ UnixCall
    /\ cmdIn.store = "true"
    /\ cmdIn.shellVar = Some(<<"/", "b", "i", "n", "/", "n", "u">>)
    /\ cmdIn.args = <<"--version">>
    /\ cmdOut.args[3][1] = "^"


\* C15: an install_cli call that no other call overlaps finds the temporary
\* script present and executable when it runs it.
ScriptReadyWhenRunAlone ==
    \A p \in Callers :
        (pc[p] = "install_run" /\ ~overlapped[p]) =>
            tempScript.exists /\ tempScript.exec

\* C15 witness: of two overlapping calls, one is about to run the script it
\* wrote and made executable, and the other has deleted it.
ScriptGoneBeforeRun ==
    \E p \in Callers :
        /\ pc[p] = "install_run"
        /\ overlapped[p]
        /\ Count(log[p], "chmod_script") = 1
        /\ ~tempScript.exists
        /\ \E q \in Callers \ {p} : Count(log[q], "remove_script") = 1

\* C16: a sync_cli call that follows one that queried the version and
\* succeeded queries the version, does not call install_cli, succeeds and
\* leaves the installed binary as it found it.
SecondSyncChangesNothing ==
    (/\ Returned("sync")
     /\ prevSync.result = Ok("()")
     /\ Count(prevSync.log, "version_query") = 1) =>
        /\ Count(log["sync"], "version_query") = 1
        /\ Count(log["sync"], "install_cli") = 0
        /\ result["sync"] = Ok("()")
        /\ installed = atCall["sync"]

\* C16 witness: the second sync_cli has returned after a first one that
\* called install_cli and succeeded.
SecondSyncAfterInstall ==
    /\ Returned("sync")
    /\ prevSync.result = Ok("()")
    /\ Count(prevSync.log, "install_cli") = 1
    /\ Count(log["sync"], "version_query") = 1


====
